---- MODULE Spec2Model ----
(***************************************************************************)
(* tailscale-exporter (src/main.go): a Prometheus collector that turns the *)
(* output of `tailscale status -json` into per-peer counters, plus the     *)
(* goroutine of main that watches the node's first tailnet address.        *)
(*                                                                         *)
(* The process is modelled as a state machine: main's startup, the address *)
(* watchdog goroutine (one action per loop iteration up to the sleep, one  *)
(* action for the sleep), one Collector.Collect call at a time, one action *)
(* per stretch of it that another goroutine can interrupt, and the return  *)
(* of http.ListenAndServe.  Every run of the status command is an input    *)
(* drawn from CmdRuns.                                                     *)
(***************************************************************************)
EXTENDS Integers, Sequences, FiniteSets, TLC

VARIABLES
    mainpc,         \* main: "start" before line 170 has run, "serve" from line 175 on
    ip,             \* main's ip (line 170): the address the server is bound to
    errors,         \* the watchdog goroutine's errors counter (line 176)
    wdpc,           \* the watchdog goroutine: "fetch" (line 178) or "sleep" (line 189)
    newIp,          \* the watchdog's newIp (line 178) while it is in scope, else ""
    exit,           \* why the process ended, "none" while it runs
    cpc,            \* the Collect call: "idle", "check" (115), "template" (118), "range" (123),
                    \*   "rx" (130), "tx" (131), "returned", "panicked"
    scrapeRun,      \* the command run that call fetched from (line 114)
    status,         \* Collect's status (line 114)
    cerr,           \* Collect's err (line 114)
    templateLabels, \* Collect's templateLabels (line 118), <<>> before
    scrapeOrder,    \* the order in which the range of line 123 visits status.Peer
    remaining,      \* the part of that order not yet visited
    labels,         \* Collect's labels (line 124), <<>> outside the loop body
    emitted,        \* the metrics that call has sent on ch, in order
    collectErr,     \* the panic of that call: "none", "fetch" (line 116), "index" (lines 122, 127)
    streak          \* observer: failed watchdog fetches since its last successful one

wdvars == <<errors, wdpc, newIp, streak>>

cvars == <<cpc, scrapeRun, status, cerr, templateLabels, scrapeOrder, remaining,
           labels, emitted, collectErr>>

vars == <<mainpc, ip, exit, wdvars, cvars>>

-----------------------------------------------------------------------------
(* Bounds of the input space: the peers of a document read by a scrape of *)
(* SpecCollector, by a scrape of Spec, and by getListenAddr               *)

MaxPeers == 3

ProcPeers == 1

WatchPeers == 0

-----------------------------------------------------------------------------
(* Strings.  A DNS name is a sequence of one-character strings so that     *)
(* strings.Split is computed, the other strings are atoms.                 *)

RECURSIVE FirstSegment(_)
FirstSegment(s) ==
    IF s = <<>> THEN <<>>
    ELSE IF Head(s) = "." THEN <<>>
    ELSE <<Head(s)>> \o FirstSegment(Tail(s))

Itoa(n) == ToString(n)

(* float64(n) of lines 130-131 is exact for |n| <= 2^53, which covers every *)
(* byte count used here, so a sample's value is the integer itself.         *)
Float64(n) == n

dynLabels == <<"id", "name", "given_name", "ip",
               "peer_name", "peer_given_name", "peer_ip", "peer_user_id">>

-----------------------------------------------------------------------------
(* The status documents the command can print *)

AddrA == "100.64.0.1"
AddrB == "100.64.0.2"

SelfIPLists == {<<>>, <<AddrA>>, <<AddrB>>, <<AddrB, AddrA>>}

SelfNodes ==
    [ID : {"n0"}, HostName : {"host0"},
     DNSName : {<<"h", "0", ".", "t", "s">>},
     TailscaleIPs : SelfIPLists]

PeerDNS(k) ==
    IF k % 3 = 1 THEN <<"p", ".", "t", "s", ".", "n">>
    ELSE IF k % 3 = 2 THEN <<"q">>
    ELSE <<".", "r">>

PeerAddr(k) == "100.64.1." \o ToString(k)

PeerNode(k, ips) ==
    [HostName |-> "peer" \o ToString(k), DNSName |-> PeerDNS(k),
     TailscaleIPs |-> ips, UserID |-> k + 4,
     RxBytes |-> 10 * k, TxBytes |-> 20 * k]

(* m maps each peer key of the document to whether that peer has an address *)
PeerOf(m) ==
    [k \in DOMAIN m |-> PeerNode(k, IF m[k] THEN <<PeerAddr(k)>> ELSE <<>>)]

PeerMaps(n) ==
    UNION {[K -> BOOLEAN] : K \in SUBSET (1..n)}

TailscaleStatus(n) ==
    {[Self |-> s, Peer |-> PeerOf(m)] : s \in SelfNodes, m \in PeerMaps(n)}

(* the Go zero value of the struct, also what an error return carries *)
ZeroStatus ==
    [Self |-> [ID |-> "", HostName |-> "", DNSName |-> <<>>, TailscaleIPs |-> <<>>],
     Peer |-> PeerOf(<<>>)]

SampleStatus ==
    [Self |-> [ID |-> "n0", HostName |-> "host0",
               DNSName |-> <<"h", "0", ".", "t", "s">>, TailscaleIPs |-> <<AddrA>>],
     Peer |-> PeerOf([k \in {1} |-> TRUE])]

(* One run of `tailscale status -json`: how cmd.Run ended, what it wrote   *)
(* on stderr, and its stdout as the document it holds (json: whether it    *)
(* unmarshals).  n bounds the number of peers of a document.               *)
CmdRuns(n) ==
    [runErr : {"none"}, stderr : {"", "warn"}, json : {TRUE}, doc : TailscaleStatus(n)]
    \cup [runErr : {"none"}, stderr : {"", "warn"}, json : {FALSE}, doc : {ZeroStatus}]
    \cup [runErr : {"exit", "timeout"}, stderr : {"", "fail"}, json : {FALSE}, doc : {ZeroStatus}]
    \cup [runErr : {"exit", "timeout"}, stderr : {"", "fail"}, json : {TRUE}, doc : {SampleStatus}]

NoRun == [runErr |-> "norun", stderr |-> "", json |-> FALSE, doc |-> ZeroStatus]

-----------------------------------------------------------------------------
(* The functions of main.go *)

TailscaleGetStatus(run) ==
    IF run.runErr # "none" THEN [err |-> "run", status |-> ZeroStatus]
    ELSE IF ~run.json THEN [err |-> "unmarshal", status |-> ZeroStatus]
    ELSE [err |-> "nil", status |-> run.doc]

getListenAddr(run) ==
    LET r == TailscaleGetStatus(run) IN
    IF r.err # "nil" THEN [err |-> r.err, ip |-> ""]
    ELSE IF Len(r.status.Self.TailscaleIPs) < 1 THEN [err |-> "no ips found", ip |-> ""]
    ELSE [err |-> "nil", ip |-> r.status.Self.TailscaleIPs[1]]

MustNewConstMetric(desc, value, labelValues) ==
    [desc |-> desc, value |-> value, labels |-> labelValues]

(* lines 124-128: the clone of the template with the four labels of the peer *)
PeerLabels(template, peer) ==
    [i \in 1..Len(dynLabels) |->
        IF i = 5 THEN peer.HostName
        ELSE IF i = 6 THEN FirstSegment(peer.DNSName)
        ELSE IF i = 7 THEN peer.TailscaleIPs[1]
        ELSE IF i = 8 THEN Itoa(peer.UserID)
        ELSE template[i]]

PeerRx(peer, peerLabels) ==
    MustNewConstMetric("tailscale_peer_rx", Float64(peer.RxBytes), peerLabels)

(* line 131 with the Desc of line 130 *)
PeerTxWithRxDesc(peer, peerLabels) ==
    MustNewConstMetric("tailscale_peer_rx", Float64(peer.TxBytes), peerLabels)

PeerTx(peer, peerLabels) ==
    MustNewConstMetric("tailscale_peer_tx", Float64(peer.TxBytes), peerLabels)

(* lines 118-122 with line 122 guarded by len(TailscaleIPs) > 0 *)
TemplateGuardedSelf(st) ==
    [err |-> "none",
     labels |-> [i \in 1..Len(dynLabels) |->
                    IF i = 1 THEN st.Self.ID
                    ELSE IF i = 2 THEN st.Self.HostName
                    ELSE IF i = 3 THEN FirstSegment(st.Self.DNSName)
                    ELSE IF i = 4 /\ Len(st.Self.TailscaleIPs) > 0 THEN st.Self.TailscaleIPs[1]
                    ELSE ""]]

(* lines 118-122: the four labels of self, or the index panic of line 122 *)
TemplateLabels(st) ==
    IF Len(st.Self.TailscaleIPs) < 1 THEN [err |-> "index", labels |-> <<>>]
    ELSE [err |-> "none",
          labels |-> [i \in 1..Len(dynLabels) |->
                         IF i = 1 THEN st.Self.ID
                         ELSE IF i = 2 THEN st.Self.HostName
                         ELSE IF i = 3 THEN FirstSegment(st.Self.DNSName)
                         ELSE IF i = 4 THEN st.Self.TailscaleIPs[1]
                         ELSE ""]]

(* The orders in which `range status.Peer` can visit the keys of the map *)
RECURSIVE RangeOrders(_)
RangeOrders(K) ==
    IF K = {} THEN {<<>>}
    ELSE UNION {{<<k>> \o o : o \in RangeOrders(K \ {k})} : k \in K}

MaxErrors == 20

(* line 181 with >= for > *)
ExceededAt(n) == n >= MaxErrors

Exceeded(n) == n > MaxErrors

(* line 186 comparing with listen (line 174) for ip *)
DriftedFromListen(observed, bound) == observed # bound \o ":9995"

Drifted(observed, bound) == observed # bound

(* line 187 with a call that logs and ends only the goroutine *)
AliveAfterDrift(e) == e \in {"none", "drift"}

(* panic and log.Fatal end the whole process: no goroutine runs after them *)
Alive(e) == e = "none"

-----------------------------------------------------------------------------
(* The process *)

Init ==
    /\ mainpc = "start"
    /\ ip = ""
    /\ errors = 0
    /\ wdpc = "fetch"
    /\ newIp = ""
    /\ exit = "none"
    /\ cpc = "idle"
    /\ scrapeRun = NoRun
    /\ status = ZeroStatus
    /\ cerr = "nil"
    /\ templateLabels = <<>>
    /\ scrapeOrder = <<>>
    /\ remaining = <<>>
    /\ labels = <<>>
    /\ emitted = <<>>
    /\ collectErr = "none"
    /\ streak = 0

(* main, lines 170-175: the bind address, or panic *)
Main(runs) ==
    /\ Alive(exit)
    /\ mainpc = "start"
    /\ \E run \in runs :
         LET r == getListenAddr(run) IN
         IF r.err # "nil"
         THEN /\ exit' = "startup"
              /\ UNCHANGED <<mainpc, ip>>
         ELSE /\ ip' = r.ip
              /\ mainpc' = "serve"
              /\ UNCHANGED exit
    /\ UNCHANGED <<wdvars, cvars>>

(* watchdog goroutine, lines 178-188: one fetch and what the loop does with it *)
WatchdogFetch(runs) ==
    /\ Alive(exit)
    /\ mainpc = "serve"
    /\ wdpc = "fetch"
    /\ \E run \in runs :
         LET r == getListenAddr(run) IN
         IF r.err # "nil"
         THEN /\ errors' = errors + 1
              /\ streak' = streak + 1
              /\ exit' = IF Exceeded(errors + 1) THEN "exhausted" ELSE exit
              /\ UNCHANGED <<wdpc, newIp>>
         ELSE /\ newIp' = r.ip
              /\ streak' = 0
              /\ IF Drifted(r.ip, ip)
                 THEN exit' = "drift" /\ UNCHANGED wdpc
                 ELSE wdpc' = "sleep" /\ UNCHANGED exit
              /\ UNCHANGED errors
    /\ UNCHANGED <<mainpc, ip, cvars>>

(* watchdog goroutine, line 189, and the end of the loop body *)
WatchdogSleep ==
    /\ Alive(exit)
    /\ mainpc = "serve"
    /\ wdpc = "sleep"
    /\ wdpc' = "fetch"
    /\ newIp' = ""
    /\ UNCHANGED <<mainpc, ip, exit, errors, streak, cvars>>

(* Collector.Collect is called for a scrape and fetches, lines 111-114 *)
CollectFetch(runs) ==
    /\ Alive(exit)
    /\ mainpc = "serve"
    /\ cpc \in {"idle", "returned"}
    /\ \E run \in runs :
         LET r == TailscaleGetStatus(run) IN
         /\ scrapeRun' = run
         /\ status' = r.status
         /\ cerr' = r.err
    /\ cpc' = "check"
    /\ templateLabels' = <<>>
    /\ scrapeOrder' = <<>>
    /\ remaining' = <<>>
    /\ labels' = <<>>
    /\ emitted' = <<>>
    /\ collectErr' = "none"
    /\ UNCHANGED <<mainpc, ip, exit, wdvars>>

(* Collect, lines 115-117.  This panic and those of lines 122 and 127 are  *)
(* recovered nowhere in main.go: the registry calls Collect on a goroutine *)
(* of its own, so they end the process.                                    *)
CollectCheck ==
    /\ Alive(exit)
    /\ cpc = "check"
    /\ IF cerr # "nil"
       THEN cpc' = "panicked" /\ collectErr' = "fetch" /\ exit' = "collect"
       ELSE cpc' = "template" /\ UNCHANGED <<collectErr, exit>>
    /\ UNCHANGED <<mainpc, ip, wdvars, scrapeRun, status, cerr, templateLabels,
                   scrapeOrder, remaining, labels, emitted>>

(* Collect, lines 118-123: the template labels, then the range starts *)
CollectTemplate ==
    /\ Alive(exit)
    /\ cpc = "template"
    /\ LET t == TemplateLabels(status) IN
       IF t.err # "none"
       THEN /\ cpc' = "panicked" /\ collectErr' = t.err /\ exit' = "collect"
            /\ UNCHANGED <<templateLabels, scrapeOrder, remaining>>
       ELSE /\ templateLabels' = t.labels
            /\ \E order \in RangeOrders(DOMAIN status.Peer) :
                  scrapeOrder' = order /\ remaining' = order
            /\ cpc' = "range"
            /\ UNCHANGED <<collectErr, exit>>
    /\ UNCHANGED <<mainpc, ip, wdvars, scrapeRun, status, cerr, labels, emitted>>

(* Collect, lines 123-128: the next peer and its labels, or the return of line 134 *)
CollectRange ==
    /\ Alive(exit)
    /\ cpc = "range"
    /\ IF remaining = <<>>
       THEN cpc' = "returned" /\ UNCHANGED <<labels, collectErr, exit>>
       ELSE LET peer == status.Peer[Head(remaining)] IN
            IF Len(peer.TailscaleIPs) < 1
            THEN cpc' = "panicked" /\ collectErr' = "index" /\ exit' = "collect"
                 /\ UNCHANGED labels
            ELSE cpc' = "rx" /\ labels' = PeerLabels(templateLabels, peer)
                 /\ UNCHANGED <<collectErr, exit>>
    /\ UNCHANGED <<mainpc, ip, wdvars, scrapeRun, status, cerr, templateLabels,
                   scrapeOrder, remaining, emitted>>

(* Collect, line 130: the send of the rx sample *)
CollectSendRx ==
    /\ Alive(exit)
    /\ cpc = "rx"
    /\ emitted' = Append(emitted, PeerRx(status.Peer[Head(remaining)], labels))
    /\ cpc' = "tx"
    /\ UNCHANGED <<mainpc, ip, exit, wdvars, scrapeRun, status, cerr, templateLabels,
                   scrapeOrder, remaining, labels, collectErr>>

(* Collect, lines 131-132: the send of the tx sample, end of the loop body *)
CollectSendTx ==
    /\ Alive(exit)
    /\ cpc = "tx"
    /\ emitted' = Append(emitted, PeerTx(status.Peer[Head(remaining)], labels))
    /\ remaining' = Tail(remaining)
    /\ labels' = <<>>
    /\ cpc' = "range"
    /\ UNCHANGED <<mainpc, ip, exit, wdvars, scrapeRun, status, cerr, templateLabels,
                   scrapeOrder, collectErr>>

(* Another Collect call, running for a concurrent scrape, panics at line   *)
(* 116: calls share no state, so all it does to this one is end the        *)
(* process.                                                                *)
ConcurrentCollectPanics ==
    /\ Alive(exit)
    /\ mainpc = "serve"
    /\ exit' = "collect"
    /\ UNCHANGED <<mainpc, ip, wdvars, cvars>>

(* main, line 196: http.ListenAndServe returns and log.Fatal exits *)
ListenAndServe ==
    /\ Alive(exit)
    /\ mainpc = "serve"
    /\ exit' = "listen"
    /\ UNCHANGED <<mainpc, ip, wdvars, cvars>>

(* The whole process: startup, watchdog, scrapes, server.  getListenAddr  *)
(* reads only Self of a document, so main and the watchdog draw their     *)
(* runs from documents of at most WatchPeers peers.                       *)
Next ==
    \/ Main(CmdRuns(WatchPeers))
    \/ WatchdogFetch(CmdRuns(WatchPeers))
    \/ WatchdogSleep
    \/ CollectFetch(CmdRuns(ProcPeers))
    \/ CollectCheck
    \/ CollectTemplate
    \/ CollectRange
    \/ CollectSendRx
    \/ CollectSendTx
    \/ ConcurrentCollectPanics
    \/ ListenAndServe

Spec == Init /\ [][Next]_vars

(* The collector over the larger documents: the runs in which the watchdog *)
(* goroutine is not scheduled after startup.                               *)
NextCollector ==
    \/ Main(CmdRuns(WatchPeers))
    \/ CollectFetch(CmdRuns(MaxPeers))
    \/ CollectCheck
    \/ CollectTemplate
    \/ CollectRange
    \/ CollectSendRx
    \/ CollectSendTx
    \/ ConcurrentCollectPanics
    \/ ListenAndServe

SpecCollector == Init /\ [][NextCollector]_vars

-----------------------------------------------------------------------------
(* Vocabulary of the properties *)

(* the step is a watchdog fetch: lines 178-188 ran *)
WatchdogFetched ==
    /\ mainpc = "serve" /\ wdpc = "fetch" /\ exit = "none"
    /\ (wdpc' = "sleep" \/ errors' # errors \/ exit' = "drift")

(* the step is a watchdog fetch whose getListenAddr returned an address *)
WatchdogSucceeded ==
    /\ mainpc = "serve" /\ wdpc = "fetch" /\ exit = "none"
    /\ newIp = "" /\ newIp' # ""

(* the watchdog has ended the process: log.Fatalf of line 187 or panic of line 182 *)
WatchdogTerminated == exit \in {"drift", "exhausted"}

(* the step leaves the process ended as it was, fetches nothing and emits nothing *)
NothingRuns ==
    /\ exit' = exit
    /\ UNCHANGED <<mainpc, ip, wdvars>>
    /\ UNCHANGED cvars

(* the Collect call has a snapshot: its fetch of line 114 returned no error *)
Fetched == cpc # "idle" /\ cerr = "nil"

(* the command run of the Collect call ended with an error or printed no document *)
RunFailed == scrapeRun.runErr # "none" \/ ~scrapeRun.json

NoSelfAddress == Len(status.Self.TailscaleIPs) = 0

AllPeersAddressed == \A k \in DOMAIN status.Peer : Len(status.Peer[k].TailscaleIPs) >= 1

NumPeers == Cardinality(DOMAIN status.Peer)

(* g is dns cut before its first "." *)
IsGivenName(g, dns) ==
    /\ Len(g) <= Len(dns)
    /\ \A i \in 1..Len(g) : g[i] = dns[i] /\ g[i] # "."
    /\ (Len(g) < Len(dns) => dns[Len(g) + 1] = ".")

(* sample m carries the eight label values of self and peer k, in the order of dynLabels *)
LabelsOf(m, k) ==
    /\ Len(m.labels) = 8
    /\ m.labels[1] = status.Self.ID
    /\ m.labels[2] = status.Self.HostName
    /\ IsGivenName(m.labels[3], status.Self.DNSName)
    /\ m.labels[4] = status.Self.TailscaleIPs[1]
    /\ m.labels[5] = status.Peer[k].HostName
    /\ IsGivenName(m.labels[6], status.Peer[k].DNSName)
    /\ m.labels[7] = status.Peer[k].TailscaleIPs[1]
    /\ m.labels[8] = ToString(status.Peer[k].UserID)

SamplesOf(desc, k) ==
    {i \in 1..Len(emitted) : emitted[i].desc = desc /\ LabelsOf(emitted[i], k)}

-----------------------------------------------------------------------------
(* Properties *)

(* C1: a watchdog fetch that returns an address ends the process, as an   *)
(* address drift, exactly when that address differs from the bound one;   *)
(* otherwise the process keeps running and the loop goes to its sleep,    *)
(* whatever the failure counter holds.                                    *)
C1_DriftIffAddressDiffers ==
    [][WatchdogSucceeded =>
          (/\ (exit' = "drift") <=> (newIp' # ip)
           /\ (exit' = "none" /\ wdpc' = "sleep") <=> (newIp' = ip))]_vars

C1_Witness == exit = "drift" /\ newIp # ip /\ newIp # "" /\ errors > 0

(* C2 as stated: once 20 consecutive fetches have failed from a counter   *)
(* of 0, the process is terminated, and fetch exhaustion does not happen  *)
(* below 20 failures.                                                     *)
C2_TerminatedAtTwentieth ==
    /\ (errors = streak /\ streak >= MaxErrors) => exit # "none"
    /\ exit = "exhausted" => errors >= MaxErrors

(* C2 amended: once 21 consecutive fetches have failed from a counter of  *)
(* 0 the process has ended for fetch exhaustion, and fetch exhaustion     *)
(* happens only when the counter is 21.                                   *)
C2_TerminatedAtTwentyFirst ==
    /\ (errors = streak /\ streak >= MaxErrors + 1) => exit = "exhausted"
    /\ exit = "exhausted" => errors = MaxErrors + 1

C2_Witness == exit = "exhausted" /\ errors = streak /\ streak = MaxErrors + 1

(* C3: after a successful fetch of the bound address (the loop is at its  *)
(* sleep) the failure counter is 0, and the process ends for fetch        *)
(* exhaustion only when a run of consecutive failures reached the         *)
(* threshold.                                                             *)
C3_CounterResetOnSuccess ==
    /\ wdpc = "sleep" => errors = 0
    /\ exit = "exhausted" => streak >= MaxErrors

(* C4: a Collect call that fails (fetch error or missing address) does    *)
(* not end the process.                                                   *)
C4_FailedScrapeLeavesProcessRunning ==
    collectErr # "none" => exit # "collect"

(* C5: when the snapshot of a Collect call has a self address and N peers *)
(* with an address each, the call does not fail; what it has sent so far  *)
(* is at most one tailscale_peer_rx and one tailscale_peer_tx per peer,   *)
(* each with the 8 label values of self and of a peer in the order of     *)
(* dynLabels, the first 4 the same in all of them; and once it has        *)
(* returned it has sent 2N samples, one of each per peer.                 *)
C5_TwoSamplesPerPeer ==
    (Fetched /\ ~NoSelfAddress /\ AllPeersAddressed) =>
        /\ collectErr = "none"
        /\ Len(emitted) <= 2 * NumPeers
        /\ \A k \in DOMAIN status.Peer :
              /\ Cardinality(SamplesOf("tailscale_peer_rx", k)) <= 1
              /\ Cardinality(SamplesOf("tailscale_peer_tx", k)) <= 1
        /\ \A i \in 1..Len(emitted) :
              /\ Len(emitted[i].labels) = Len(dynLabels)
              /\ \E k \in DOMAIN status.Peer : LabelsOf(emitted[i], k)
        /\ \A i, j \in 1..Len(emitted) :
              \A l \in 1..4 : emitted[i].labels[l] = emitted[j].labels[l]
        /\ cpc = "returned" =>
              /\ Len(emitted) = 2 * NumPeers
              /\ \A k \in DOMAIN status.Peer :
                    /\ Cardinality(SamplesOf("tailscale_peer_rx", k)) = 1
                    /\ Cardinality(SamplesOf("tailscale_peer_tx", k)) = 1

C5_Witness ==
    /\ Fetched /\ ~NoSelfAddress /\ AllPeersAddressed
    /\ cpc = "returned"
    /\ NumPeers >= 2
    /\ Len(emitted) = 2 * NumPeers

(* C6: when a peer of the snapshot has no address, the Collect call sends *)
(* no sample at all and does not return normally.                         *)
C6_NoSampleWhenPeerLacksAddress ==
    (Fetched /\ ~AllPeersAddressed) => (emitted = <<>> /\ cpc # "returned")

(* C7: when the self node of the snapshot has no address, the Collect     *)
(* call sends no sample and gets no further than line 122, where it       *)
(* panics, whatever the peers.                                            *)
C7_NoSelfAddressNoSample ==
    (Fetched /\ NoSelfAddress) =>
        /\ emitted = <<>>
        /\ cpc \in {"check", "template", "panicked"}
        /\ cpc = "panicked" => collectErr = "index"

C7_Witness ==
    /\ Fetched /\ NoSelfAddress
    /\ NumPeers >= 2 /\ AllPeersAddressed
    /\ cpc = "panicked" /\ collectErr = "index" /\ emitted = <<>>

(* C8: a Collect call whose command run exited non-zero or wrote on      *)
(* stderr gets an error from the fetch and uses none of its output: it    *)
(* gets no further than the panic of line 116.                            *)
C8_ErrorOnExitOrStderr ==
    (cpc # "idle" /\ (scrapeRun.runErr # "none" \/ scrapeRun.stderr # "")) =>
        /\ cerr # "nil"
        /\ cpc \in {"check", "panicked"}
        /\ emitted = <<>>

(* C9: once the watchdog has ended the process (address drift or fetch    *)
(* exhaustion) nothing changes any more: the process stays ended, the     *)
(* watchdog fetches no more, no Collect call starts or goes on, and no    *)
(* sample is sent.                                                        *)
C9_TerminatedIsAbsorbing ==
    [][WatchdogTerminated => NothingRuns]_vars

C9_Witness == WatchdogTerminated /\ cpc = "tx" /\ emitted # <<>>

(* C10: after every watchdog fetch that leaves the process running, the   *)
(* loop is at its sleep before it fetches again.                          *)
C10_SleepAfterEveryFetch ==
    [][(WatchdogFetched /\ exit' = "none") => wdpc' = "sleep"]_vars

====
